---- MODULE Spec2Model ----
(***************************************************************************)
(* ProTune: the pitch detector (autoCorrelate), the capture engine         *)
(* (AudioEngine.start / stop / detectPitchLoop) and the App handlers that  *)
(* drive the engine.                                                       *)
(*                                                                         *)
(* Numbers.  Samples are fixed-point: a sample v stands for the amplitude  *)
(* v / AmpScale, so a correlation value x stands for x / AmpScale^2.       *)
(* Sensitivity s stands for s / 10 (the slider moves in steps of 0.1).     *)
(* Arithmetic is exact (rationals); JavaScript's undefined / NaN operands  *)
(* are modelled by the comparisons and sums they make false or skip.       *)
(***************************************************************************)
EXTENDS Integers, Sequences, FiniteSets, TLC

VARIABLES
    tunerMath,          \* which of the two tunerMath sources is linked
    \* ---- AudioEngine fields (part_000:5-12)
    audioContext,       \* BOOLEAN: the context and analyser exist
    isListening,        \* AudioEngine.isListening
    stream,             \* AudioEngine.stream: 0 (null) or a stream id
    mediaStreamSource,  \* AudioEngine.mediaStreamSource: 0 (null) or a source id
    \* ---- the browser
    mediaDevices,       \* BOOLEAN: navigator.mediaDevices.getUserMedia exists
    acquired,           \* number of streams getUserMedia has handed out
    liveTracks,         \* ids of the streams whose tracks are not stopped
    connected,          \* ids of the sources connected to the analyser
    pending,            \* start() calls waiting in getUserMedia, in call order
    rafQueue,           \* callbacks registered with requestAnimationFrame
    \* ---- what the sink has seen
    calls,              \* number of start() calls made so far
    stopRequested,      \* stop() was called and no start() since
    sinkAfterStop,      \* sink invocations since that stop()
    delivered,          \* the frames handed to the sink by the last step
    \* ---- App state (App.tsx:20-28)
    phase,              \* "engine" | "mounting" | "mounted" | "unmounted"
    settings,           \* App's settings (TunerSettings)
    appIsListening,     \* App's isListening
    error,              \* App's error (BOOLEAN: an error message is shown)
    currentPitch,       \* App's currentPitch
    lastInTuneTime,     \* App's lastInTuneTime
    \* ---- the browser, seen from App
    clock,              \* the last value Date.now() returned (0: not read yet)
    vibrations,         \* the times of the last two navigator.vibrate calls
    \* ---- one call of autoCorrelate
    pc,                 \* "off" | "call" | "done"
    buffer,             \* the frame passed in
    sampleRate,
    sensitivity,
    result,             \* the value returned
    \* ---- one call of getNoteFromFrequency
    noteFrequency,      \* the frequency passed in
    noteA4,             \* the a4 passed in
    note                \* the value returned

vars == <<tunerMath, audioContext, isListening, stream, mediaStreamSource,
          mediaDevices, acquired, liveTracks, connected, pending, rafQueue,
          calls, stopRequested, sinkAfterStop, delivered,
          phase, settings, appIsListening, error,
          currentPitch, lastInTuneTime, clock, vibrations,
          pc, buffer, sampleRate, sensitivity, result,
          noteFrequency, noteA4, note>>

engineVars == <<audioContext, isListening, stream, mediaStreamSource,
                mediaDevices, acquired, liveTracks, connected, pending,
                rafQueue, calls, stopRequested, sinkAfterStop, delivered>>

appVars == <<phase, settings, appIsListening, error,
             currentPitch, lastInTuneTime, clock, vibrations>>

\* what the sink (App's handlePitchDetected) writes
sinkVars == <<currentPitch, lastInTuneTime, clock, vibrations>>

callVars == <<pc, buffer, sampleRate, sensitivity, result,
              noteFrequency, noteA4, note>>

(***************************************************************************)
(* Bounds of the model.                                                    *)
(***************************************************************************)
\* longest frame handed to autoCorrelate
MaxLen == 5
\* start() calls in one behaviour
MaxStarts == 2
\* the counter of sink invocations after stop() saturates here
MaxCount == 3

\* a sample v is the amplitude v / AmpScale
AmpScale == 10 * 100

TunerMathSources == {"TunerVisual", "part_001"}

\* amplitudes -1, -0.1, 0, 0.005, 1
Samples == {-1000, -100, 0, 5, 1000}

\* sensitivities 0.1, 0.5, 1.0
Sensitivities == {1, 5, 10}

SampleRates == {44100}

A4References == {440, 442}

(***************************************************************************)
(* Arithmetic helpers.                                                     *)
(***************************************************************************)
Abs(x) == IF x < 0 THEN -x ELSE x

\* ceiling of a / b for a >= 0, b > 0
CeilDiv(a, b) == (a + b - 1) \div b

\* buffer[i] with JavaScript's 0-based index
At(buf, i) == buf[i + 1]

RECURSIVE SumOfSquaresIn(_, _, _)
\* part_001:25-28 : sum of buffer[i]^2 for lo <= i < hi; the range is
\* halved so that a long frame does not nest deeply (the sum is exact)
SumOfSquaresIn(buf, lo, hi) ==
    IF hi <= lo THEN 0
    ELSE IF hi = lo + 1 THEN At(buf, lo) * At(buf, lo)
    ELSE LET mid == (lo + hi) \div 2
         IN  SumOfSquaresIn(buf, lo, mid) + SumOfSquaresIn(buf, mid, hi)

\* part_001:25-28 : sumOfSquares over the first n samples
SumOfSquares(buf, n) == SumOfSquaresIn(buf, 0, n)

(***************************************************************************)
(* autoCorrelate: the noise gate.                                          *)
(* Thresholds are kept in units of 1e-5 of full scale.                     *)
(***************************************************************************)
PerUnit == 100 * 1000

\* TunerVisual.tsx:208  minThreshold = 0.0001
minThreshold == 10
\* TunerVisual.tsx:209  maxThreshold = 0.01
maxThreshold == 1000

\* TunerVisual.tsx:210  minThreshold + (1 - sensitivity) * (maxThreshold - minThreshold)
ThresholdTunerVisual(sens) ==
    minThreshold + ((10 - sens) * (maxThreshold - minThreshold)) \div 10

\* part_001:34  0.06 - (sensitivity * 0.05)
ThresholdPart001(sens) == 6000 - 500 * sens

\* a gate that closes as the sensitivity goes up
ThresholdRisesWithSensitivity(sens) == 500 * sens

threshold(sens) ==
    IF tunerMath = "TunerVisual" THEN ThresholdTunerVisual(sens)
    ELSE ThresholdPart001(sens)

\* part_001:29,36  rootMeanSquare < t, with rootMeanSquare =
\* sqrt(sumOfSquares / SIZE) and t in units of 1e-5.  For SIZE = 0 the
\* quotient is 0/0 = NaN and the comparison is false.  Otherwise both sides
\* are >= 0 and the comparison is sumOfSquares * k^2 < SIZE * t^2 (k converts
\* a sample to 1e-5 units), that is sumOfSquares < ceiling(SIZE * t^2 / k^2);
\* the ceiling is taken in two parts so that no product leaves the machine
\* integers.
RmsBelow(buf, t) ==
    LET SIZE == Len(buf)
        k2   == (PerUnit \div AmpScale) * (PerUnit \div AmpScale)
        t2   == t * t
    IN  /\ SIZE > 0
        /\ t > 0
        /\ SumOfSquares(buf, SIZE)
              < SIZE * (t2 \div k2) + CeilDiv(SIZE * (t2 % k2), k2)

\* part_001:36  rootMeanSquare < threshold
BelowThreshold(buf, sens) == RmsBelow(buf, threshold(sens))

(***************************************************************************)
(* autoCorrelate: edge trimming (part_001:41-58).                          *)
(***************************************************************************)
\* part_001:43  thres = 0.2
thres == 20000

\* Math.abs(buffer[i]) < thres
Quiet(v) == Abs(v) * (PerUnit \div AmpScale) < thres

RECURSIVE ScanForward(_, _)
\* part_001:45-50 : first i < SIZE / 2 with a quiet sample, else 0
ScanForward(buf, i) ==
    IF 2 * i >= Len(buf) THEN 0
    ELSE IF Quiet(At(buf, i)) THEN i
    ELSE ScanForward(buf, i + 1)

RECURSIVE ScanBackward(_, _)
\* part_001:51-56 : SIZE - i for the first 1 <= i < SIZE / 2 with a quiet
\* sample at SIZE - i, else SIZE - 1
ScanBackward(buf, i) ==
    IF 2 * i >= Len(buf) THEN Len(buf) - 1
    ELSE IF Quiet(At(buf, Len(buf) - i)) THEN Len(buf) - i
    ELSE ScanBackward(buf, i + 1)

TrimStart(buf) == ScanForward(buf, 0)

TrimEnd(buf) == ScanBackward(buf, 1)

\* Array.prototype.slice(from, to): the elements from <= index < to; a
\* negative bound counts from the end and is clamped at 0
Slice(buf, from, to) ==
    LET lo == IF from < 0 THEN (IF from + Len(buf) < 0 THEN 0 ELSE from + Len(buf)) ELSE from
        hi0 == IF to < 0 THEN (IF to + Len(buf) < 0 THEN 0 ELSE to + Len(buf)) ELSE to
        hi == IF hi0 > Len(buf) THEN Len(buf) ELSE hi0
    IN  IF hi <= lo THEN << >>
        ELSE SubSeq(buf, lo + 1, hi)

\* part_001:58  buffer2 = buffer.slice(r1, r2)
WorkingBuffer(buf) == Slice(buf, TrimStart(buf), TrimEnd(buf))

(***************************************************************************)
(* autoCorrelate: autocorrelation and peak search (part_001:59-79).        *)
(***************************************************************************)
RECURSIVE CorrelateIn(_, _, _, _)
\* part_001:62-64 : sum of buffer2[j] * buffer2[j + lag] for lo <= j < hi
CorrelateIn(buf2, lag, lo, hi) ==
    IF hi <= lo THEN 0
    ELSE IF hi = lo + 1 THEN At(buf2, lo) * At(buf2, lo + lag)
    ELSE LET mid == (lo + hi) \div 2
         IN  CorrelateIn(buf2, lag, lo, mid) + CorrelateIn(buf2, lag, mid, hi)

\* part_001:62-64 : the inner loop, j < n
Correlate(buf2, lag, n) == CorrelateIn(buf2, lag, 0, n)

\* part_001:59-65 : c[i] for every i < buffer2.length (1-based here)
Correlation(buf2) ==
    [i \in 1..Len(buf2) |-> Correlate(buf2, i - 1, Len(buf2) - (i - 1))]

\* c[i] is a number (not undefined)
Defined(c, i) == i >= 0 /\ i < Len(c)

\* the scan of part_001:68 left out: the search starts at the lag it is given
DescentSkipsNothing(c, d) == d

RECURSIVE Descent(_, _)
\* part_001:67-68 : while (c[d] > c[d + 1]) d++;  a comparison with
\* undefined is false, so the scan stops at the last lag at the latest
Descent(c, d) ==
    IF Defined(c, d) /\ Defined(c, d + 1) /\ At(c, d) > At(c, d + 1)
    THEN Descent(c, d + 1)
    ELSE d

RECURSIVE FirstMaxIn(_, _, _)
\* the first lag of the largest c[i] for lo <= i < hi (lo < hi): the lag
\* the loop of part_001:72-77 ends on when some c[i] exceeds its maxval
FirstMaxIn(c, lo, hi) ==
    IF hi = lo + 1 THEN lo
    ELSE LET mid == (lo + hi) \div 2
             l   == FirstMaxIn(c, lo, mid)
             r   == FirstMaxIn(c, mid, hi)
         IN  IF At(c, r) > At(c, l) THEN r ELSE l

\* part_001:72-77 : for (let i = d; ...) if (c[i] > maxval) { maxval = c[i];
\* maxpos = i; } : the first lag i >= d of the largest c[i], when that
\* value is above the maxval the loop is entered with
PeakFrom(c, d, maxval, maxpos) ==
    IF d >= Len(c) THEN [maxval |-> maxval, maxpos |-> maxpos]
    ELSE LET p == FirstMaxIn(c, d, Len(c))
         IN  IF At(c, p) > maxval THEN [maxval |-> At(c, p), maxpos |-> p]
             ELSE [maxval |-> maxval, maxpos |-> maxpos]

\* part_001:69-77 : maxval = -1, maxpos = -1 before the search
Peak(c) == PeakFrom(c, Descent(c, 0), -(AmpScale * AmpScale), -1)

(***************************************************************************)
(* autoCorrelate: parabolic refinement and outputs (part_001:79-94).       *)
(* A period is the rational tn / td with td > 0.                           *)
(***************************************************************************)
\* part_001:82-88 : T0 - b / (2 * a) when a is a non-zero number, else T0.
\* a = (x1 + x3 - 2 * x2) / 2 is NaN when a neighbour of T0 is undefined.
Refine(c, T0) ==
    IF Defined(c, T0 - 1) /\ Defined(c, T0) /\ Defined(c, T0 + 1)
    THEN LET x1 == At(c, T0 - 1)
             x2 == At(c, T0)
             x3 == At(c, T0 + 1)
             a2 == x1 + x3 - 2 * x2      \* 2 * a
             b2 == x3 - x1               \* 2 * b
         IN  IF a2 = 0 THEN [tn |-> T0, td |-> 1]
             ELSE IF a2 > 0 THEN [tn |-> 2 * a2 * T0 - b2, td |-> 2 * a2]
             ELSE [tn |-> b2 - 2 * a2 * T0, td |-> -2 * a2]
    ELSE [tn |-> T0, td |-> 1]

\* part_001:92  c[0] > 0 ? maxval / c[0] : 0, as the rational n / d
Clarity(c, maxval) ==
    IF Defined(c, 0) /\ At(c, 0) > 0 THEN [n |-> maxval, d |-> At(c, 0)]
    ELSE [n |-> 0, d |-> 1]

\* part_001:37  { frequency: -1, clarity: 0 } ; a frequency is rate / (tn / td)
NoPitch == [frequency |-> [rate |-> -1, tn |-> 1, td |-> 1],
            clarity |-> [n |-> 0, d |-> 1]]

\* part_001:40-94 : the period search, run on a frame the gate lets through
PeriodSearch(buf, rate) ==
    LET c  == Correlation(WorkingBuffer(buf))
        pk == Peak(c)
        T0 == Refine(c, pk.maxpos)
    IN  [frequency |-> [rate |-> rate, tn |-> T0.tn, td |-> T0.td],
         clarity |-> Clarity(c, pk.maxval)]

\* part_001:22-95
autoCorrelate(buf, rate, sens) ==
    IF BelowThreshold(buf, sens) THEN NoPitch
    ELSE PeriodSearch(buf, rate)

\* part_000:118  frequency === -1
IsMinusOne(f) ==
    /\ f.tn # 0
    /\ f.tn % f.td = 0
    /\ f.rate = -(f.tn \div f.td)

\* the frequency is a finite number greater than 0
PositiveFinite(f) == (f.rate > 0 /\ f.tn > 0) \/ (f.rate < 0 /\ f.tn < 0)

\* the frequency is Infinity: the sample rate divided by a zero period
IsInfinite(f) == f.tn = 0


(***************************************************************************)
(* getNoteFromFrequency (part_001:3-19).                                   *)
(* A JavaScript number is [kind, value]: kind "number" with an integer     *)
(* value, or "NaN", "Infinity", "-Infinity" (value 0).  Logarithms are     *)
(* taken in fixed point, 1 / LogOne of an octave, and cents are integers   *)
(* (the cent below the exact value, to within two cents); the logarithm of *)
(* 1 is exactly 0, so a frequency equal to a4 maps with deviation 0.       *)
(***************************************************************************)
\* constants.ts:3 (the sharp sign written #)
NOTE_NAMES == <<"C", "C#", "D", "D#", "E", "F", "F#", "G", "G#", "A", "A#", "B">>

Number(v) == [kind |-> "number", value |-> v]

NaN == [kind |-> "NaN", value |-> 0]

Infinity == [kind |-> "Infinity", value |-> 0]

MinusInfinity == [kind |-> "-Infinity", value |-> 0]

\* NOTE_NAMES[i] for an index expression: undefined outside 0..11
NameAt(i) == IF i \in 0..11 THEN NOTE_NAMES[i + 1] ELSE "undefined"

\* a % b of JavaScript for b > 0: the sign follows the dividend
JsRem(a, b) == IF a >= 0 THEN a % b ELSE -((-a) % b)

\* the fixed-point unit of a mantissa
LogScale == 128 * 128
\* fractional bits of a logarithm, and their unit
LogBits == 12
LogOne == 64 * 64

RECURSIVE Pow2(_)
Pow2(k) == IF k = 0 THEN 1 ELSE 2 * Pow2(k - 1)

RECURSIVE Mantissa(_, _)
\* n / m in units of 1 / LogScale, for m <= n < 2 m
Mantissa(n, m) ==
    IF n < 4 * LogScale
    THEN LET x == (n * LogScale) \div m
         IN  IF x >= 2 * LogScale THEN 2 * LogScale - 1 ELSE x
    ELSE Mantissa(n \div 2, m \div 2)

RECURSIVE LogFrac(_, _)
\* the first `bits` binary digits of log2(x / LogScale), for
\* LogScale <= x < 2 LogScale, by repeated squaring
LogFrac(x, bits) ==
    IF bits = 0 THEN 0
    ELSE LET y == (x * x) \div LogScale
         IN  IF y >= 2 * LogScale
             THEN Pow2(bits - 1) + LogFrac(y \div 2, bits - 1)
             ELSE LogFrac(y, bits - 1)

RECURSIVE Log2(_, _)
\* Math.log(n / m) / Math.log(2) for n, m > 0, in units of 1 / LogOne
Log2(n, m) ==
    IF n >= 2 * m THEN LogOne + Log2(n, 2 * m)
    ELSE IF n < m
    THEN (IF m < Pow2(30) THEN Log2(2 * n, m) ELSE Log2(n, m \div 2)) - LogOne
    ELSE LogFrac(Mantissa(n, m), LogBits)

\* a frequency is rate / (tn / td) with td > 0: the number it is
FrequencyKind(f) ==
    IF f.tn = 0
    THEN (IF f.rate > 0 THEN "Infinity"
          ELSE IF f.rate < 0 THEN "-Infinity" ELSE "NaN")
    ELSE IF f.rate = 0 THEN "zero"
    ELSE IF (f.rate > 0) = (f.tn > 0) THEN "positive"
    ELSE "negative"

\* part_001:4  1200 * log2(frequency / a4) for a positive finite frequency:
\* 100 * noteNum, in cents
CentsFromA4(f, a4) ==
    (1200 * (Log2(Abs(f.rate), a4) - Log2(Abs(f.tn), f.td))) \div LogOne

\* part_001:3-19 for a positive finite frequency
NoteOfPositive(f, a4) ==
    LET total     == CentsFromA4(f, a4)
        noteIndex == ((total + 50) \div 100) + 69     \* Math.round(noteNum) + 69
    IN  [name            |-> NameAt(JsRem(noteIndex, 12)),
         octave          |-> Number((noteIndex \div 12) - 1),
         cents           |-> Number(total - 100 * (noteIndex - 69)),
         noteIndex       |-> Number(noteIndex),
         targetFrequency |-> [kind |-> "number", a4 |-> a4,
                              semitones |-> noteIndex - 69]]

\* every field computed from NaN: Math.log of a negative number
NoteOfNaN(a4) ==
    [name |-> "undefined", octave |-> NaN, cents |-> NaN, noteIndex |-> NaN,
     targetFrequency |-> [kind |-> "NaN", a4 |-> a4, semitones |-> 0]]

\* part_001:3-19  getNoteFromFrequency(frequency, a4).  Math.log(0) is
\* -Infinity and Math.log(Infinity) is Infinity: the index is infinite, the
\* index % 12 is NaN, and the cents are the logarithm of 0 / 0 or
\* Infinity / Infinity, NaN.  Nothing in the function throws.
getNoteFromFrequency(f, a4) ==
    CASE FrequencyKind(f) = "positive" -> NoteOfPositive(f, a4)
      [] FrequencyKind(f) = "zero" ->
            [name |-> "undefined", octave |-> MinusInfinity, cents |-> NaN,
             noteIndex |-> MinusInfinity,
             targetFrequency |-> [kind |-> "zero", a4 |-> a4, semitones |-> 0]]
      [] FrequencyKind(f) = "Infinity" ->
            [name |-> "undefined", octave |-> Infinity, cents |-> NaN,
             noteIndex |-> Infinity,
             targetFrequency |-> [kind |-> "Infinity", a4 |-> a4, semitones |-> 0]]
      [] OTHER -> NoteOfNaN(a4)

(***************************************************************************)
(* Pure sine frames.  The engine's frame is 2048 samples at 44100 Hz; the  *)
(* frames here are that case with the frame length and the sample rate     *)
(* both divided by 4 (512 samples at 11025 Hz), so a tone spans the same   *)
(* number of periods of the frame (5.1 for 110 Hz, 20.4 for 440 Hz) and    *)
(* every lag here is a quarter of the lag there.  Sample k is              *)
(* round(1000 * 0.3 * sin(2 * pi * f * k / 11025)): amplitude 0.3.         *)
(***************************************************************************)
SineRate == 44100 \div 4

Sine110 ==
    << 0, 19, 38, 56, 74, 93, 110, 127, 144, 160, 176, 191, 205, 218, 231, 242,
       253, 263, 271, 279, 285, 290, 295, 298, 299, 300, 299, 298, 295, 291, 286, 279,
       272, 264, 254, 244, 232, 220, 207, 193, 178, 162, 146, 129, 112, 95, 77, 58,
       40, 21, 2, -17, -35, -54, -72, -90, -108, -126, -142, -159, -174, -189, -203, -217,
       -229, -241, -252, -262, -270, -278, -284, -290, -294, -297, -299, -300, -300, -298, -295, -291,
       -286, -280, -273, -265, -255, -245, -233, -221, -208, -194, -179, -164, -148, -131, -114, -97,
       -79, -60, -42, -23, -4, 15, 33, 52, 70, 88, 106, 124, 140, 157, 173, 188,
       202, 215, 228, 240, 251, 260, 269, 277, 284, 289, 294, 297, 299, 300, 300, 298,
       296, 292, 287, 281, 274, 266, 256, 246, 235, 223, 210, 196, 181, 166, 150, 133,
       116, 99, 81, 62, 44, 25, 6, -12, -31, -50, -68, -86, -104, -122, -139, -155,
       -171, -186, -200, -214, -227, -238, -249, -259, -268, -276, -283, -289, -293, -297, -299, -300,
       -300, -298, -296, -292, -288, -282, -275, -267, -257, -247, -236, -224, -211, -197, -183, -168,
       -152, -135, -118, -101, -83, -64, -46, -27, -9, 10, 29, 48, 66, 84, 102, 120,
       137, 153, 169, 184, 199, 212, 225, 237, 248, 258, 267, 275, 282, 288, 293, 296,
       299, 300, 300, 299, 296, 293, 288, 282, 276, 268, 259, 248, 237, 225, 213, 199,
       185, 169, 154, 137, 120, 103, 85, 67, 48, 29, 11, -8, -27, -46, -64, -82,
       -100, -118, -135, -151, -167, -183, -197, -211, -224, -236, -247, -257, -266, -274, -282, -287,
       -292, -296, -298, -300, -300, -299, -297, -293, -289, -283, -276, -269, -260, -250, -239, -227,
       -214, -201, -186, -171, -155, -139, -122, -105, -87, -69, -50, -32, -13, 6, 25, 43,
       62, 80, 98, 116, 133, 149, 165, 181, 195, 209, 222, 235, 246, 256, 265, 274,
       281, 287, 292, 296, 298, 300, 300, 299, 297, 294, 289, 284, 277, 269, 261, 251,
       240, 228, 216, 202, 188, 173, 157, 141, 124, 107, 89, 71, 52, 34, 15, -4,
       -23, -41, -60, -78, -96, -114, -131, -148, -164, -179, -194, -208, -221, -233, -245, -255,
       -264, -273, -280, -286, -291, -295, -298, -300, -300, -299, -297, -294, -290, -285, -278, -270,
       -262, -252, -241, -230, -217, -204, -190, -175, -159, -143, -126, -109, -91, -73, -54, -36,
       -17, 2, 21, 39, 58, 76, 94, 112, 129, 146, 162, 177, 192, 206, 219, 232,
       243, 254, 263, 272, 279, 286, 291, 295, 298, 299, 300, 299, 298, 295, 290, 285,
       279, 271, 263, 253, 243, 231, 219, 205, 191, 176, 161, 145, 128, 111, 93, 75,
       57, 38, 19, 0, -18, -37, -56, -74, -92, -110, -127, -144, -160, -176, -191, -205,
       -218, -230, -242, -253, -262, -271, -278, -285, -290, -294, -297, -299, -300, -300, -298, -295,
       -291, -286, -280, -272, -264, -254, -244, -232, -220, -207, -193, -178, -163, -146, -130, -113,
       -95, -77, -59, -40, -21, -3, 16, 35, 54, 72, 90, 108, 125, 142, 158, 174 >>

Sine440 ==
    << 0, 74, 144, 205, 253, 285, 299, 295, 272, 232, 178, 112, 40, -35, -108, -174,
       -229, -270, -294, -300, -286, -255, -208, -148, -79, -4, 70, 140, 202, 251, 284, 299,
       296, 274, 235, 181, 116, 44, -31, -104, -171, -227, -268, -293, -300, -288, -257, -211,
       -152, -83, -9, 66, 137, 199, 248, 282, 299, 296, 276, 237, 185, 120, 48, -27,
       -100, -167, -224, -266, -292, -300, -289, -260, -214, -155, -87, -13, 62, 133, 195, 246,
       281, 298, 297, 277, 240, 188, 124, 52, -23, -96, -164, -221, -264, -291, -300, -290,
       -262, -217, -159, -91, -17, 58, 129, 192, 243, 279, 298, 298, 279, 243, 191, 128,
       57, -18, -92, -160, -218, -262, -290, -300, -291, -264, -220, -163, -95, -21, 54, 125,
       189, 241, 278, 297, 298, 280, 245, 194, 132, 61, -14, -88, -156, -215, -260, -289,
       -300, -292, -266, -223, -166, -99, -26, 49, 121, 186, 238, 276, 297, 299, 282, 248,
       198, 136, 65, -10, -84, -153, -212, -258, -288, -300, -293, -268, -226, -170, -103, -30,
       45, 117, 182, 236, 274, 296, 299, 283, 250, 201, 139, 69, -6, -80, -149, -209,
       -256, -287, -300, -294, -270, -229, -173, -107, -34, 41, 113, 179, 233, 273, 295, 299,
       285, 252, 204, 143, 73, -1, -76, -145, -206, -254, -285, -299, -295, -271, -231, -177,
       -111, -38, 37, 109, 175, 230, 271, 294, 300, 286, 255, 207, 147, 77, 3, -72,
       -142, -203, -251, -284, -299, -295, -273, -234, -180, -115, -43, 32, 105, 172, 227, 269,
       293, 300, 287, 257, 210, 151, 81, 7, -67, -138, -200, -249, -283, -299, -296, -275,
       -237, -184, -119, -47, 28, 101, 168, 225, 267, 293, 300, 288, 259, 213, 154, 86,
       12, -63, -134, -196, -247, -281, -298, -297, -277, -239, -187, -123, -51, 24, 97, 165,
       222, 265, 292, 300, 290, 261, 216, 158, 90, 16, -59, -130, -193, -244, -280, -298,
       -297, -278, -242, -190, -127, -55, 20, 93, 161, 219, 263, 291, 300, 291, 263, 219,
       162, 94, 20, -55, -126, -190, -242, -278, -297, -298, -280, -244, -193, -131, -59, 15,
       89, 158, 216, 261, 289, 300, 292, 265, 222, 165, 98, 24, -51, -122, -187, -239,
       -277, -297, -298, -281, -247, -197, -134, -64, 11, 85, 154, 213, 259, 288, 300, 293,
       267, 225, 169, 102, 29, -46, -118, -183, -236, -275, -296, -299, -283, -249, -200, -138,
       -68, 7, 81, 150, 210, 257, 287, 300, 294, 269, 228, 172, 106, 33, -42, -115,
       -180, -234, -273, -295, -299, -284, -252, -203, -142, -72, 3, 77, 146, 207, 254, 286,
       300, 294, 271, 230, 176, 110, 37, -38, -111, -176, -231, -271, -295, -299, -286, -254,
       -206, -146, -76, -2, 73, 143, 204, 252, 285, 299, 295, 273, 233, 179, 114, 41,
       -34, -107, -173, -228, -269, -294, -300, -287, -256, -209, -149, -80, -6, 69, 139, 201,
       250, 283, 299, 296, 274, 236, 183, 118, 46, -29, -103, -169, -225, -268, -293, -300,
       -288, -258, -212, -153, -84, -10, 64, 135, 197, 247, 282, 298, 297, 276, 238, 186 >>

SineFrames == { Sine110, Sine440 }

\* the frequency of the tone in a sine frame, in Hz
SineHz(frame) == IF frame = Sine110 THEN 110 ELSE 440

(***************************************************************************)
(* One call of autoCorrelate on a bounded frame or on a sine frame.        *)
(***************************************************************************)
RECURSIVE FramesOfLen(_)
FramesOfLen(n) ==
    IF n = 0 THEN { << >> }
    ELSE { Append(f, v) : f \in FramesOfLen(n - 1), v \in Samples }

Frames == UNION { FramesOfLen(n) : n \in 0..MaxLen }

\* the engine is idle in the specification of the pure call, and the pure
\* call is off in the specifications of the engine
EngineIdle ==
    /\ audioContext = FALSE
    /\ isListening = FALSE
    /\ stream = 0
    /\ mediaStreamSource = 0
    /\ mediaDevices = TRUE
    /\ acquired = 0
    /\ liveTracks = {}
    /\ connected = {}
    /\ pending = << >>
    /\ rafQueue = << >>
    /\ calls = 0
    /\ stopRequested = FALSE
    /\ sinkAfterStop = 0
    /\ delivered = << >>

\* App.tsx:14  selectedStringIndex: null
NoString == -1

\* App.tsx:9-17 (soundEnabled, which only gates the reference tone, left out)
DEFAULT_SETTINGS ==
    [a4Reference |-> 440, instrument |-> "guitar", tuningName |-> "Standard",
     isAutoMode |-> TRUE, selectedStringIndex |-> NoString, sensitivity |-> 5]

\* the sink's argument for a frame without a pitch: null
NullPitch == [null |-> TRUE]

\* App.tsx:20-24 : the initial state of App
AppIdle ==
    /\ settings = DEFAULT_SETTINGS
    /\ appIsListening = FALSE
    /\ error = FALSE
    /\ currentPitch = NullPitch
    /\ lastInTuneTime = 0
    /\ clock = 0
    /\ vibrations = << >>

\* no call of getNoteFromFrequency is in progress
NoteOff ==
    /\ noteFrequency = [rate |-> 440, tn |-> 1, td |-> 1]
    /\ noteA4 = 440
    /\ note = NoteOfNaN(440)

CallOff ==
    /\ pc = "off"
    /\ buffer = << >>
    /\ sampleRate = 44100
    /\ sensitivity = 5
    /\ result = NoPitch
    /\ NoteOff

InitCall ==
    /\ tunerMath \in TunerMathSources
    /\ EngineIdle
    /\ AppIdle
    /\ phase = "engine"
    /\ pc = "call"
    /\ \/ buffer \in Frames /\ sampleRate \in SampleRates
       \/ buffer \in SineFrames /\ sampleRate = SineRate
    /\ sensitivity \in Sensitivities
    /\ result = NoPitch
    /\ NoteOff

\* part_001:22  autoCorrelate(buffer, sampleRate, sensitivity)
CallAutoCorrelate ==
    /\ pc = "call"
    /\ result' = autoCorrelate(buffer, sampleRate, sensitivity)
    /\ pc' = "done"
    /\ UNCHANGED <<tunerMath, buffer, sampleRate, sensitivity>>
    /\ UNCHANGED <<noteFrequency, noteA4, note>>
    /\ UNCHANGED engineVars
    /\ UNCHANGED appVars

NextCall == CallAutoCorrelate

SpecCall == InitCall /\ [][NextCall]_vars

(***************************************************************************)
(* One call of getNoteFromFrequency.                                       *)
(***************************************************************************)
\* numerators and denominators of the frequencies passed in: 440, 466.16,
\* 110, the sample rate over short periods, frequencies under 8 Hz, zero,
\* negative and infinite ones
NoteRates == {-44100, -1, 0, 7, 15, 110, 440, 442, 46616, 44100}

NotePeriods == {0, 1, 2, 3, 100, 401}

NoteFrequencies ==
    { [rate |-> r, tn |-> t, td |-> 1] : r \in NoteRates, t \in NotePeriods }

InitNote ==
    /\ tunerMath \in TunerMathSources
    /\ EngineIdle
    /\ AppIdle
    /\ phase = "engine"
    /\ pc = "note"
    /\ buffer = << >>
    /\ sampleRate = 44100
    /\ sensitivity = 5
    /\ result = NoPitch
    /\ noteFrequency \in NoteFrequencies
    /\ noteA4 \in A4References
    /\ note = NoteOfNaN(noteA4)

\* part_001:3  getNoteFromFrequency(frequency, a4)
CallGetNote ==
    /\ pc = "note"
    /\ note' = getNoteFromFrequency(noteFrequency, noteA4)
    /\ pc' = "noted"
    /\ UNCHANGED <<tunerMath, buffer, sampleRate, sensitivity, result,
                   noteFrequency, noteA4>>
    /\ UNCHANGED engineVars
    /\ UNCHANGED appVars

NextNote == CallGetNote

SpecNote == InitNote /\ [][NextNote]_vars

(***************************************************************************)
(* AudioEngine (part_000).                                                 *)
(***************************************************************************)
\* the time-domain data the analyser can hand to a frame of the loop
\* (silence, two quiet frames that only some sensitivities let through, a
\* periodic one whose pitch is within a cent of a note at a4 = 440, and one
\* whose working buffer is all zero)
LoopFrames == { <<0, 0, 0, 0>>, <<5, 5, 5, 5>>, <<100, 0, 0, 0>>,
                <<100, 5, 100, 5, 100>>, <<1000, 0, 0, 1000>> }

Min(a, b) == IF a < b THEN a ELSE b

\* a loop body that maps every frame and never passes null
SinkArgumentAlwaysMapped(frame, rate, sens, a4) ==
    LET r == autoCorrelate(frame, rate, sens)
        n == getNoteFromFrequency(r.frequency, a4)
    IN  [sensitivity |-> sens, a4 |-> a4, frame |-> frame, mapped |-> TRUE,
         pitch |-> [null |-> FALSE, frequency |-> r.frequency,
                    note |-> n.name, octave |-> n.octave,
                    deviation |-> n.cents, clarity |-> r.clarity]]

\* part_000:115-129 : one frame of detectPitchLoop run with the sensitivity
\* and a4 it was started with: whether getNoteFromFrequency is called, and
\* the argument passed to the sink
SinkArgument(frame, rate, sens, a4) ==
    LET r == autoCorrelate(frame, rate, sens)
    IN  IF IsMinusOne(r.frequency)
        THEN [sensitivity |-> sens, a4 |-> a4, frame |-> frame,
              mapped |-> FALSE, pitch |-> NullPitch]
        ELSE LET n == getNoteFromFrequency(r.frequency, a4)
             IN  [sensitivity |-> sens, a4 |-> a4, frame |-> frame,
                  mapped |-> TRUE,
                  pitch |-> [null |-> FALSE, frequency |-> r.frequency,
                             note |-> n.name, octave |-> n.octave,
                             deviation |-> n.cents, clarity |-> r.clarity]]

\* part_000:113  if (!this.isListening || !this.analyser) return;
LoopRuns(listening) == listening /\ audioContext

\* part_000:112-132 : one run of every callback in `queue`, in order, while
\* the engine's flag is `listening`: the frames handed to the sink, each
\* with the callback (its origin and the lastInTuneTime it closes over) it
\* is handed to
LoopDeliveries(queue, listening, frame) ==
    IF LoopRuns(listening)
    THEN [i \in 1..Len(queue) |->
            SinkArgument(frame, sampleRate, queue[i].sensitivity, queue[i].a4)
              @@ [origin |-> queue[i].origin,
                  lastInTuneTime |-> queue[i].lastInTuneTime]]
    ELSE << >>

\* part_000:131 : the callbacks registered again by that run
LoopReschedules(queue, listening) ==
    IF LoopRuns(listening) THEN queue ELSE << >>

\* the sink was invoked n more times
CountSink(n) ==
    sinkAfterStop' = IF stopRequested THEN Min(MaxCount, sinkAfterStop + n)
                     ELSE sinkAfterStop

RemoveAt(q, i) == [j \in 1..(Len(q) - 1) |-> IF j < i THEN q[j] ELSE q[j + 1]]

\* part_000:29-45 : start() up to the await of getUserMedia.  init() creates
\* the context; without navigator.mediaDevices the call rejects at once.
EngineStart(sens, a4, origin, captured) ==
    /\ calls < MaxStarts
    /\ calls' = calls + 1
    /\ audioContext' = TRUE
    /\ pending' = IF mediaDevices
                  THEN Append(pending, [sensitivity |-> sens, a4 |-> a4,
                                        origin |-> origin,
                                        lastInTuneTime |-> captured])
                  ELSE pending
    /\ stopRequested' = FALSE
    /\ sinkAfterStop' = 0
    /\ delivered' = << >>
    /\ UNCHANGED <<mediaDevices, acquired, rafQueue>>

\* part_000:65-76 : stop()
StopFields ==
    /\ isListening' = FALSE
    /\ liveTracks' = IF stream # 0 THEN liveTracks \ {stream} ELSE liveTracks
    /\ stream' = 0
    /\ connected' = IF mediaStreamSource # 0 THEN connected \ {mediaStreamSource}
                    ELSE connected
    /\ mediaStreamSource' = 0

\* stop() alone
EngineStop ==
    /\ StopFields
    /\ stopRequested' = TRUE
    /\ sinkAfterStop' = 0
    /\ delivered' = << >>
    /\ UNCHANGED <<audioContext, mediaDevices, acquired, pending, rafQueue, calls>>

\* App.tsx:128-129 : stop() immediately followed by start()
EngineRestart(sens, a4, origin, captured) ==
    /\ StopFields
    /\ EngineStart(sens, a4, origin, captured)

\* part_000:38-51 : getUserMedia resolves for the i-th waiting start():
\* the stream and its source replace the fields, the flag is set and the
\* loop runs its first frame and registers its callback
EngineGrant(i, frame) ==
    LET req == pending[i]
        id  == acquired + 1
    IN  /\ acquired' = id
        /\ stream' = id
        /\ liveTracks' = liveTracks \cup {id}
        /\ mediaStreamSource' = id
        /\ connected' = connected \cup {id}
        /\ isListening' = TRUE
        /\ pending' = RemoveAt(pending, i)
        /\ delivered' = LoopDeliveries(<<req>>, TRUE, frame)
        /\ rafQueue' = rafQueue \o LoopReschedules(<<req>>, TRUE)
        /\ CountSink(1)
        /\ UNCHANGED <<audioContext, mediaDevices, calls, stopRequested>>

\* part_000:59-62 : getUserMedia rejects; start() rethrows
EngineDeny(i) ==
    /\ pending' = RemoveAt(pending, i)
    /\ delivered' = << >>
    /\ UNCHANGED <<audioContext, isListening, stream, mediaStreamSource,
                   mediaDevices, acquired, liveTracks, connected, rafQueue,
                   calls, stopRequested, sinkAfterStop>>

\* part_000:112-132 : one animation frame: every registered callback runs
EngineTick(frame) ==
    /\ rafQueue # << >>
    /\ delivered' = LoopDeliveries(rafQueue, isListening, frame)
    /\ rafQueue' = LoopReschedules(rafQueue, isListening)
    /\ CountSink(Len(delivered'))
    /\ UNCHANGED <<audioContext, isListening, stream, mediaStreamSource,
                   mediaDevices, acquired, liveTracks, connected, pending,
                   calls, stopRequested>>

(***************************************************************************)
(* The sink App hands to start(): handlePitchDetected (App.tsx:71-80), as  *)
(* the closure of the render that created it.                              *)
(***************************************************************************)
\* App.tsx:75  the throttle of the haptic pulse, in ms
HapticGapMs == 500

\* the instants Date.now() can return: a first reading, the two animation
\* frames after it (16 ms apart) and one more than half a second later
Instants == {1000, 1016, 1032, 1600}

\* App.tsx:73  pitch && Math.abs(pitch.deviation) < 5 (false for NaN)
InTune(pitch) ==
    /\ ~pitch.null
    /\ pitch.deviation.kind = "number"
    /\ Abs(pitch.deviation.value) < 5

LastTwo(q) == IF Len(q) <= 2 THEN q ELSE SubSeq(q, Len(q) - 1, Len(q))

\* App.tsx:71-80 : handlePitchDetected(pitch) run at time `now` by a closure
\* whose lastInTuneTime is `captured`, on the App state `app`
handlePitchDetected(pitch, captured, now, app) ==
    IF InTune(pitch) /\ now - captured > HapticGapMs
    THEN [currentPitch   |-> pitch,
          lastInTuneTime |-> now,
          vibrations     |-> LastTwo(Append(app.vibrations, now))]
    ELSE [app EXCEPT !.currentPitch = pitch]

\* the callback was made by App (not by some other caller of the engine)
FromApp(d) == d.origin # "caller"

RECURSIVE SinkAll(_, _, _)
\* the sink invoked for each delivery of one step, in order
SinkAll(ds, now, app) ==
    IF ds = << >> THEN app
    ELSE SinkAll(Tail(ds), now,
                 IF FromApp(Head(ds))
                 THEN handlePitchDetected(Head(ds).pitch,
                                          Head(ds).lastInTuneTime, now, app)
                 ELSE app)

\* some delivery makes handlePitchDetected read Date.now() (App.tsx:74)
ReadsClock(ds) == \E i \in 1..Len(ds) : FromApp(ds[i]) /\ InTune(ds[i].pitch)

\* the deliveries of this step reach the sink; Date.now() returns an
\* instant after the one it returned last
Sink ==
    LET app == [currentPitch |-> currentPitch,
                lastInTuneTime |-> lastInTuneTime,
                vibrations |-> vibrations]
    IN  \E now \in (IF ReadsClock(delivered') THEN {t \in Instants : t > clock}
                     ELSE {clock}) :
            LET after == SinkAll(delivered', now, app)
            IN  /\ clock' = now
                /\ currentPitch' = after.currentPitch
                /\ lastInTuneTime' = after.lastInTuneTime
                /\ vibrations' = after.vibrations

(***************************************************************************)
(* The engine driven by any caller: start() and stop() in any order.       *)
(***************************************************************************)
Init ==
    /\ tunerMath \in TunerMathSources
    /\ audioContext = FALSE
    /\ isListening = FALSE
    /\ stream = 0
    /\ mediaStreamSource = 0
    /\ mediaDevices \in BOOLEAN
    /\ acquired = 0
    /\ liveTracks = {}
    /\ connected = {}
    /\ pending = << >>
    /\ rafQueue = << >>
    /\ calls = 0
    /\ stopRequested = FALSE
    /\ sinkAfterStop = 0
    /\ delivered = << >>
    /\ phase = "engine"
    /\ AppIdle
    /\ CallOff

Start ==
    /\ phase = "engine"
    /\ \E sens \in Sensitivities, a4 \in A4References :
          EngineStart(sens, a4, "caller", 0)
    /\ UNCHANGED <<isListening, stream, mediaStreamSource, liveTracks, connected>>
    /\ UNCHANGED <<tunerMath, appVars, callVars>>

Stop ==
    /\ phase = "engine"
    /\ EngineStop
    /\ UNCHANGED <<tunerMath, appVars, callVars>>

\* the promise of start() resolves: App.tsx:86 for startTuner, nothing for
\* the restart effect (App.tsx:129) or another caller
Grant ==
    /\ \E i \in 1..Len(pending), frame \in LoopFrames :
          /\ EngineGrant(i, frame)
          /\ Sink
          /\ appIsListening' = IF pending[i].origin = "startTuner" THEN TRUE
                               ELSE appIsListening
    /\ UNCHANGED <<tunerMath, phase, settings, error, callVars>>

\* the promise of start() rejects: App.tsx:87-97 for startTuner, a log line
\* for the restart effect (App.tsx:129)
Deny ==
    /\ \E i \in 1..Len(pending) :
          /\ EngineDeny(i)
          /\ appIsListening' = IF pending[i].origin = "startTuner" THEN FALSE
                               ELSE appIsListening
          /\ error' = IF pending[i].origin = "startTuner" THEN TRUE ELSE error
    /\ UNCHANGED <<tunerMath, phase, settings, sinkVars, callVars>>

Tick ==
    /\ \E frame \in LoopFrames :
          /\ EngineTick(frame)
          /\ Sink
    /\ UNCHANGED <<tunerMath, phase, settings, appIsListening, error, callVars>>

Next == Start \/ Stop \/ Grant \/ Deny \/ Tick

Spec == Init /\ [][Next]_vars

(***************************************************************************)
(* App (App.tsx): the handlers that start, restart and stop the engine.    *)
(***************************************************************************)
InitApp ==
    /\ tunerMath \in TunerMathSources
    /\ EngineIdle
    /\ phase = "mounting"
    /\ AppIdle
    /\ CallOff

\* App.tsx:82-98 : startTuner, with the settings settingsRef holds and the
\* handlePitchDetected of the render startTuner belongs to (`captured` is
\* that render's lastInTuneTime); when start() rejects at once the catch
\* block runs
StartTuner(captured) ==
    /\ EngineStart(settings.sensitivity, settings.a4Reference, "startTuner",
                   captured)
    /\ error' = ~mediaDevices
    /\ appIsListening' = IF mediaDevices THEN appIsListening ELSE FALSE
    /\ UNCHANGED <<isListening, stream, mediaStreamSource, liveTracks, connected>>
    /\ UNCHANGED <<tunerMath, settings, sinkVars, callVars>>

\* App.tsx:105-107 : the mount timer fires; its startTuner is the one of
\* the first render, where lastInTuneTime is 0
MountTimer ==
    /\ phase = "mounting"
    /\ phase' = "mounted"
    /\ StartTuner(0)

\* App.tsx:165-170 : the Retry button, shown while there is an error
Retry ==
    /\ phase = "mounted"
    /\ error
    /\ phase' = phase
    /\ StartTuner(lastInTuneTime)

\* Controls.tsx:83,108 and App.tsx:126-131 : a4Reference or sensitivity is
\* changed, and the restart effect runs with the new settings
ChangeSetting ==
    /\ phase \in {"mounting", "mounted"}
    /\ \E sens \in Sensitivities, a4 \in A4References :
          /\ <<sens, a4>> # <<settings.sensitivity, settings.a4Reference>>
          /\ settings' = [settings EXCEPT !.sensitivity = sens,
                                          !.a4Reference = a4]
          /\ IF appIsListening
             THEN EngineRestart(sens, a4, "restart", lastInTuneTime)
             ELSE /\ delivered' = << >>
                  /\ UNCHANGED <<audioContext, isListening, stream,
                                 mediaStreamSource, mediaDevices, acquired,
                                 liveTracks, connected, pending, rafQueue,
                                 calls, stopRequested, sinkAfterStop>>
    /\ UNCHANGED <<tunerMath, phase, appIsListening, error, sinkVars, callVars>>

\* App.tsx:116-122 : the cleanup of the mount effect
Unmount ==
    /\ phase \in {"mounting", "mounted"}
    /\ phase' = "unmounted"
    /\ EngineStop
    /\ UNCHANGED <<tunerMath, settings, appIsListening, error, sinkVars,
                   callVars>>

NextApp == MountTimer \/ Retry \/ ChangeSetting \/ Unmount \/ Grant \/ Deny \/ Tick

SpecApp == InitApp /\ [][NextApp]_vars

(***************************************************************************)
(* App (App.tsx, Controls.tsx): instrument, tuning, mode and string        *)
(* selection, and the values the render derives from them.  A note name    *)
(* such as "E2" is the pair <<"E", 2>>; a note's frequency is in           *)
(* hundredths of a hertz.                                                  *)
(***************************************************************************)
NoteDefinition(class, octave, centiHz) ==
    [name |-> <<class, octave>>, frequency |-> centiHz, octave |-> octave]

\* constants.ts:18-76
TUNINGS ==
    [guitar |->
        << [name |-> "Standard",
            notes |-> << NoteDefinition("E", 2, 8241), NoteDefinition("A", 2, 11000),
                         NoteDefinition("D", 3, 14683), NoteDefinition("G", 3, 19600),
                         NoteDefinition("B", 3, 24694), NoteDefinition("E", 4, 32963) >>],
           [name |-> "Drop D",
            notes |-> << NoteDefinition("D", 2, 7342), NoteDefinition("A", 2, 11000),
                         NoteDefinition("D", 3, 14683), NoteDefinition("G", 3, 19600),
                         NoteDefinition("B", 3, 24694), NoteDefinition("E", 4, 32963) >>],
           [name |-> "Open G",
            notes |-> << NoteDefinition("D", 2, 7342), NoteDefinition("G", 2, 9800),
                         NoteDefinition("D", 3, 14683), NoteDefinition("G", 3, 19600),
                         NoteDefinition("B", 3, 24694), NoteDefinition("D", 4, 29366) >>] >>,
     bass |->
        << [name |-> "Standard",
            notes |-> << NoteDefinition("E", 1, 4120), NoteDefinition("A", 1, 5500),
                         NoteDefinition("D", 2, 7342), NoteDefinition("G", 2, 9800) >>] >>,
     ukulele |->
        << [name |-> "Standard (GCEA)",
            notes |-> << NoteDefinition("G", 4, 39200), NoteDefinition("C", 4, 26163),
                         NoteDefinition("E", 4, 32963), NoteDefinition("A", 4, 44000) >>] >>]

\* Controls.tsx:42
Instruments == {"guitar", "bass", "ukulele"}

\* the value of an array element that does not exist
UndefinedNote == [name |-> <<"undefined", 0>>, frequency |-> 0, octave |-> 0]

\* targetNote when there is nothing to aim at
NullNote == [name |-> <<"null", 0>>, frequency |-> 0, octave |-> 0]

\* notes[idx] with JavaScript's 0-based index
NoteAt(notes, idx) ==
    IF idx \in 0..(Len(notes) - 1) THEN notes[idx + 1] ELSE UndefinedNote

\* App.tsx:31-34 : instrTunings.find(t => t.name === tuningName) ||
\* instrTunings[0]
currentTuning ==
    LET instrTunings == TUNINGS[settings.instrument]
        found == { i \in 1..Len(instrTunings) :
                     instrTunings[i].name = settings.tuningName }
    IN  IF found = {} THEN instrTunings[1]
        ELSE instrTunings[CHOOSE i \in found : \A j \in found : i <= j]

\* a string is selected in manual mode (App.tsx:39, 45 and the negation of
\* App.tsx:60)
ManualString ==
    ~settings.isAutoMode /\ settings.selectedStringIndex # NoString

\* App.tsx:37-56
targetNote ==
    IF ManualString
    THEN NoteAt(currentTuning.notes, settings.selectedStringIndex)
    ELSE IF currentPitch.null THEN NullNote
    ELSE [name |-> <<currentPitch.note, currentPitch.octave>>,
          frequency |-> 100 * settings.a4Reference,
          octave |-> currentPitch.octave]

\* App.tsx:63  1200 * Math.log2(currentPitch.frequency / target.frequency)
CentsFromTarget(f, centiHz) ==
    CASE FrequencyKind(f) = "positive" ->
            Number((1200 * (Log2(100 * Abs(f.rate), centiHz)
                            - Log2(Abs(f.tn), f.td))) \div LogOne)
      [] FrequencyKind(f) = "Infinity" -> Infinity
      [] FrequencyKind(f) = "zero" -> MinusInfinity
      [] OTHER -> NaN

\* App.tsx:58-69 ; reading target.frequency of a missing note throws a
\* TypeError in the render
displayPitch ==
    IF currentPitch.null \/ ~ManualString THEN currentPitch
    ELSE LET target == NoteAt(currentTuning.notes, settings.selectedStringIndex)
         IN  IF target = UndefinedNote THEN [null |-> FALSE, threw |-> "TypeError"]
             ELSE [currentPitch EXCEPT
                     !.deviation = CentsFromTarget(currentPitch.frequency,
                                                   target.frequency)]

\* a handler that only calls setSettings: the engine is left alone
SettingsOnly(new) ==
    /\ phase \in {"mounting", "mounted"}
    /\ new # settings
    /\ settings' = new
    /\ delivered' = << >>
    /\ UNCHANGED <<audioContext, isListening, stream, mediaStreamSource,
                   mediaDevices, acquired, liveTracks, connected, pending,
                   rafQueue, calls, stopRequested, sinkAfterStop>>
    /\ UNCHANGED <<tunerMath, phase, appIsListening, error, sinkVars, callVars>>

\* Controls.tsx:45  updateSettings({ instrument, tuningName })
SelectInstrument ==
    \E inst \in Instruments :
        SettingsOnly([settings EXCEPT !.instrument = inst,
                                      !.tuningName = TUNINGS[inst][1].name])

\* Controls.tsx:61-69  updateSettings({ tuningName }) with one of the
\* tunings of the instrument
SelectTuning ==
    \E i \in 1..Len(TUNINGS[settings.instrument]) :
        SettingsOnly([settings EXCEPT
                        !.tuningName = TUNINGS[settings.instrument][i].name])

\* App.tsx:188  the Auto button
SelectAuto ==
    SettingsOnly([settings EXCEPT !.isAutoMode = TRUE,
                                  !.selectedStringIndex = NoString])

\* App.tsx:194  the Manual button
SelectManual ==
    SettingsOnly([settings EXCEPT !.isAutoMode = FALSE,
                                  !.selectedStringIndex = 0])

\* App.tsx:204-214  the button of a string of the current tuning (the
\* reference tone is off: soundEnabled is false)
SelectString ==
    \E idx \in 0..(Len(currentTuning.notes) - 1) :
        SettingsOnly([settings EXCEPT !.isAutoMode = FALSE,
                                      !.selectedStringIndex = idx])

NextUi == \/ MountTimer \/ Grant \/ Deny \/ Tick
          \/ SelectInstrument \/ SelectTuning
          \/ SelectAuto \/ SelectManual \/ SelectString

SpecUi == InitApp /\ [][NextUi]_vars

(***************************************************************************)
(* Properties of the engine.                                               *)
(***************************************************************************)
\* C1: once stop() has been called and no start() is called afterwards, the
\* sink is invoked for at most one more frame
C1_AtMostOneFrameAfterStop == stopRequested => sinkAfterStop <= 1

\* C2: after a sequence of start() and stop() calls that ends with stop()
\* and whose microphone requests have all resolved, no acquired stream has
\* un-stopped tracks and no media source is connected to the analyser
C2_NoLeakAfterStop ==
    (stopRequested /\ pending = << >>) => (liveTracks = {} /\ connected = {})

\* C3: while the engine is listening exactly one detection loop is running,
\* and no animation frame hands the sink more than one frame
C3_OneLoop ==
    /\ isListening => Len(rafQueue) = 1
    /\ Len(rafQueue) <= 1
    /\ Len(delivered) <= 1

\* C4: every frame delivered to the sink was gated with the current
\* sensitivity and mapped with the current a4Reference
C4_NoStaleSettings ==
    \A i \in 1..Len(delivered) :
        /\ delivered[i].sensitivity = settings.sensitivity
        /\ delivered[i].a4 = settings.a4Reference

(***************************************************************************)
(* Properties of autoCorrelate.                                            *)
(***************************************************************************)
Returned == pc = "done"

AllZero(buf) == \A i \in 1..Len(buf) : buf[i] = 0

PassesGate == ~BelowThreshold(buffer, sensitivity)

\* the correlation values and the peak of the call in progress
CallC == Correlation(WorkingBuffer(buffer))

CallPeak == Peak(CallC)

\* C5: an all-zero frame of any length yields the no-pitch result
\* (frequency -1, clarity 0) for every sensitivity
C5_SilenceIsNoPitch ==
    (Returned /\ AllZero(buffer)) => result = NoPitch

\* C6: a frame (of at least one sample) that passes the gate and whose
\* trimmed working buffer has fewer than 3 samples yields frequency -1
C6_ShortBufferIsNoPitch ==
    (Returned /\ Len(buffer) >= 1 /\ PassesGate /\ Len(WorkingBuffer(buffer)) < 3)
        => IsMinusOne(result.frequency)

\* the descent of part_001:68 reaches the last lag: no trough is found
NoTrough(c) == Len(c) >= 1 /\ Descent(c, 0) = Len(c) - 1

\* the lags whose correlation value part_001:82-84 reads
RefineReads(T0) == {T0 - 1, T0, T0 + 1}

\* C7: when no trough is found, or the peak lag is the first or the last
\* lag, the result is frequency -1 and no correlation value outside
\* lags 0..M-1 is read
C7_BoundaryLagIsNoPitch ==
    (/\ Returned
     /\ PassesGate
     /\ \/ NoTrough(CallC)
        \/ (Len(CallC) >= 1 /\ CallPeak.maxpos \in {0, Len(CallC) - 1}))
        => /\ IsMinusOne(result.frequency)
           /\ \A i \in RefineReads(CallPeak.maxpos) : Defined(CallC, i)

\* C8: a frame (of at least one sample) that passes the gate with zero
\* self-energy c[0] = 0 yields frequency -1, and a result that is not
\* no-pitch has a finite frequency greater than 0
C8_FrequencyPositiveFinite ==
    (Returned /\ Len(buffer) >= 1) =>
        /\ (PassesGate /\ Defined(CallC, 0) /\ At(CallC, 0) = 0)
               => IsMinusOne(result.frequency)
        /\ ~IsMinusOne(result.frequency) => PositiveFinite(result.frequency)

\* C9: the clarity returned lies in [0, 1]
C9_ClarityInUnitInterval ==
    Returned => (result.clarity.n >= 0 /\ result.clarity.n <= result.clarity.d)

\* the period tn / td in hundredths of a sample, rounded down
PeriodCenti(f) == (f.tn \div f.td) * 100 + ((f.tn % f.td) * 100) \div f.td

\* the frequency rate / (tn / td) is within 1% of hz: the period lies
\* between rate / (1.01 hz) and rate / (0.99 hz), decided to a hundredth of
\* a sample on the safe side
WithinOnePercent(f, hz) ==
    /\ f.rate > 0
    /\ f.tn > 0
    /\ PeriodCenti(f) >= CeilDiv(10000 * f.rate, 101 * hz)
    /\ PeriodCenti(f) < (10000 * f.rate) \div (99 * hz)

\* clarity >= k / 10
ClarityAtLeastTenths(cl, k) == 10 * cl.n >= k * cl.d

\* C10 as stated: for a pure sine above the gate threshold the frequency is
\* within 1% of f and the clarity is at least 0.9
C10_SineClarityNinety ==
    (Returned /\ buffer \in SineFrames) =>
        /\ WithinOnePercent(result.frequency, SineHz(buffer))
        /\ ClarityAtLeastTenths(result.clarity, 9)

\* C10 amended: for the 110 Hz and 440 Hz sines the frequency is within 1%
\* of f and the clarity is at least 0.8; at least 0.9 for the 440 Hz one
C10_SineClarityEighty ==
    (Returned /\ buffer \in SineFrames) =>
        /\ WithinOnePercent(result.frequency, SineHz(buffer))
        /\ ClarityAtLeastTenths(result.clarity, 8)
        /\ buffer = Sine440 => ClarityAtLeastTenths(result.clarity, 9)

\* a 110 Hz sine has been analysed: a pitch is reported, with clarity
\* below 0.9
C10_Witness ==
    /\ Returned
    /\ buffer = Sine110
    /\ sensitivity = 5
    /\ ~IsMinusOne(result.frequency)
    /\ ~ClarityAtLeastTenths(result.clarity, 9)

(***************************************************************************)
(* Properties of the noise gate.                                           *)
(***************************************************************************)
\* the slider positions 0.1, 0.2, ..., 1.0 (Controls.tsx:102-110)
SliderPositions == 1..10

\* minFloor + (1 - sensitivity) * (maxCeiling - minFloor) with minFloor =
\* 0.0001 and maxCeiling = 0.01, in units of 1e-5
StatedThreshold(sens) == 10 + ((10 - sens) * (1000 - 10)) \div 10

\* C11: a frame whose RMS is below minFloor + (1 - sensitivity) *
\* (maxCeiling - minFloor) yields (frequency -1, clarity 0), and every other
\* frame yields what the period search computes for it
C11_GateUsesStatedThreshold ==
    Returned =>
        result = IF RmsBelow(buffer, StatedThreshold(sensitivity)) THEN NoPitch
                 ELSE PeriodSearch(buffer, sampleRate)

\* C12: the threshold does not rise with the sensitivity (for any two slider
\* positions s1 <= s2, threshold(s2) <= threshold(s1)), so a frame that
\* passes the gate at the sensitivity of the call passes it at every higher
\* one
C12_ThresholdMonotone ==
    Returned =>
        /\ \A s1 \in SliderPositions, s2 \in SliderPositions :
               s1 <= s2 => threshold(s2) <= threshold(s1)
        /\ \A s2 \in SliderPositions :
               (sensitivity <= s2 /\ PassesGate) => ~BelowThreshold(buffer, s2)

\* a frame has been analysed that the gate rejects at sensitivity 0.1 and
\* lets through at sensitivity 1.0
C12_Witness ==
    /\ Returned
    /\ Len(buffer) >= 1
    /\ BelowThreshold(buffer, 1)
    /\ ~BelowThreshold(buffer, 10)
    /\ sensitivity = 5
    /\ PassesGate
    /\ result # NoPitch

(***************************************************************************)
(* Properties of getNoteFromFrequency.                                     *)
(***************************************************************************)
\* the call of getNoteFromFrequency has ended, by a return or by an error
NoteCallEnded == pc \in {"noted", "threw"}

\* the frequency passed in is a finite number <= 0
NotPositive(f) == FrequencyKind(f) \in {"zero", "negative"}

\* C13: a call of getNoteFromFrequency with a frequency <= 0 ends with an
\* error reported to the caller, not with a returned note
C13_NonPositiveFrequencyFails ==
    (NoteCallEnded /\ NotPositive(noteFrequency)) => pc = "threw"

\* C14: for a positive frequency the name returned is one of the 12
\* pitch-class symbols, NOTE_NAMES[index mod 12] with the modulus in 0..11,
\* and the octave is floor(index / 12) - 1; a frequency equal to a4 gives
\* index 69, name A and octave 4
C14_NameAndOctaveFromIndex ==
    (NoteCallEnded /\ FrequencyKind(noteFrequency) = "positive") =>
        /\ pc = "noted"
        /\ note.noteIndex.kind = "number"
        /\ note.name = NOTE_NAMES[(note.noteIndex.value % 12) + 1]
        /\ note.octave = Number((note.noteIndex.value \div 12) - 1)
        /\ (noteFrequency.rate = noteA4 * noteFrequency.tn) =>
               (note.noteIndex.value = 69 /\ note.name = "A"
                /\ note.octave = Number(4) /\ note.cents = Number(0))

(***************************************************************************)
(* Properties of the detection loop.                                       *)
(***************************************************************************)
\* C15: for every frame the loop processes, the sink receives null when the
\* detector returned frequency -1, and the note mapper is not called for
\* that frame; otherwise it receives the detector's frequency and clarity
\* with the note, octave and deviation the mapper gives for that frequency
\* under the loop's a4
C15_SinkGetsNullOrMappedNote ==
    \A i \in 1..Len(delivered) :
        LET d == delivered[i]
            r == autoCorrelate(d.frame, sampleRate, d.sensitivity)
            n == getNoteFromFrequency(r.frequency, d.a4)
        IN  IF IsMinusOne(r.frequency)
            THEN d.pitch = NullPitch /\ ~d.mapped
            ELSE /\ d.mapped
                 /\ d.pitch = [null |-> FALSE, frequency |-> r.frequency,
                               note |-> n.name, octave |-> n.octave,
                               deviation |-> n.cents, clarity |-> r.clarity]

\* a loop started with a4 = 442 has handed the sink a frame with a note
C15_Witness ==
    /\ Len(delivered) = 1
    /\ delivered[1].a4 = 442
    /\ delivered[1].mapped
    /\ ~delivered[1].pitch.null
    /\ delivered[1].pitch.note = "F"
    /\ delivered[1].pitch.octave = Number(10)

(***************************************************************************)
(* Properties of the trimming and of the peak search.                      *)
(***************************************************************************)
\* the indices the forward scan and the backward scan look at
ForwardHalf(buf) == { i \in 0..(Len(buf) - 1) : 2 * i < Len(buf) }

BackwardHalf(buf) ==
    { Len(buf) - i : i \in { k \in 1..Len(buf) : 2 * k < Len(buf) } }

\* the first quiet index scanning forward, else the frame's first index
FirstQuietForward(buf) ==
    LET q == { i \in ForwardHalf(buf) : Quiet(At(buf, i)) }
    IN  IF q = {} THEN 0 ELSE CHOOSE i \in q : \A j \in q : i <= j

\* the first quiet index scanning backward, else the frame's last index
FirstQuietBackward(buf) ==
    LET q == { i \in BackwardHalf(buf) : Quiet(At(buf, i)) }
    IN  IF q = {} THEN Len(buf) - 1 ELSE CHOOSE i \in q : \A j \in q : i >= j

\* C16: the working buffer is the samples at indices r1 through r2
\* inclusive, r1 and r2 being the first quiet indices of the forward and
\* backward scans or the frame's edges
C16_WorkingBufferInclusive ==
    (Returned /\ PassesGate /\ Len(buffer) >= 1) =>
        WorkingBuffer(buffer) =
            SubSeq(buffer, FirstQuietForward(buffer) + 1,
                   FirstQuietBackward(buffer) + 1)

\* the first lag d at which c[d] > c[d + 1] no longer holds
FirstNonDescent(c) ==
    CHOOSE d \in 0..(Len(c) - 1) :
        /\ ~(Defined(c, d + 1) /\ At(c, d) > At(c, d + 1))
        /\ \A e \in 0..(d - 1) : At(c, e) > At(c, e + 1)

\* C17: for a frame that passes the gate (with a working buffer of at least
\* one sample) the descent ends at a lag d of the buffer, T0 is a lag >= d,
\* maxval is c[T0], no lag >= d has a larger correlation and no lag in
\* d..T0-1 an equal one
C17_PeakIsFirstMaximumAfterDescent ==
    (Returned /\ PassesGate /\ Len(CallC) >= 1) =>
        LET d  == FirstNonDescent(CallC)
            T0 == CallPeak.maxpos
        IN  /\ Descent(CallC, 0) = d
            /\ T0 >= d
            /\ T0 <= Len(CallC) - 1
            /\ CallPeak.maxval = At(CallC, T0)
            /\ \A i \in d..(Len(CallC) - 1) : At(CallC, i) <= At(CallC, T0)
            /\ \A i \in d..(T0 - 1) : At(CallC, i) < At(CallC, T0)

(***************************************************************************)
(* Properties of App.                                                      *)
(***************************************************************************)
\* C19: when App's isListening is true and no start() is waiting for the
\* microphone, the engine is listening, holds a stream and has a detection
\* loop scheduled
C19_ListeningMeansCapturing ==
    (phase = "mounted" /\ appIsListening /\ pending = << >>) =>
        (isListening /\ stream # 0 /\ rafQueue # << >>)

\* C20: more than 500 ms lie between any two consecutive navigator.vibrate
\* calls
C20_HapticThrottled ==
    Len(vibrations) = 2 => vibrations[2] - vibrations[1] > HapticGapMs

\* C18: a selected string index is an index into the notes of the current
\* tuning, so targetNote is a note and displayPitch is computed
C18_SelectedStringIsValid ==
    settings.selectedStringIndex # NoString =>
        /\ settings.selectedStringIndex \in 0..(Len(currentTuning.notes) - 1)
        /\ targetNote # UndefinedNote
        /\ displayPitch # [null |-> FALSE, threw |-> "TypeError"]

====
